---------------------------- MODULE Spec2Model ----------------------------
(***************************************************************************)
(* Length disassembler engine (lde): the x86 decode engine lde_int, the    *)
(* bit tables it consults, and the iterators LDE / Iter / IterMut that     *)
(* apply it while tracking a virtual address.                              *)
(*                                                                         *)
(* A byte is a number 0..255.  A slice (&[u8]) is a record                 *)
(* [ptr, len]: the offset of its first byte inside the caller's buffer and *)
(* its length.  A virtual address is a little-endian sequence of 16-bit    *)
(* limbs (2 limbs for u32, 4 for u64), so that the width of the type and   *)
(* the overflow of `+=` are kept.                                          *)
(***************************************************************************)
EXTENDS Integers, Sequences, FiniteSets, TLC

VARIABLES
    arch,      \* "x86" | "x64": the instruction set E / X of the iterator
    kind,      \* "LDE" | "Iter" | "IterMut": which iterator type is in use
    checked,   \* build profile: TRUE = overflow-checks on (debug), FALSE = wrapping (release)
    buf,       \* the caller's byte buffer
    bytes,     \* the iterator's field `bytes`: the remaining slice [ptr, len] of buf
    va,        \* the iterator's field `va`
    va0,       \* the address the iterator was created with
    panicked,  \* a panic unwound out of an operation
    last,      \* the last call made and what it returned
    items,     \* the items yielded so far, while only pulls were applied
    pullsOnly, \* no consume() has been called directly by the caller so far
    pullFailed,\* some pull has returned None
    exhausted, \* a pull has returned None and no consume() was called since
    host,      \* the machine the build runs on: [big_endian]
    copy       \* a second iterator made by Clone from the first: [live, bytes, va, items, ...]

vars == << arch, kind, checked, buf, bytes, va, va0, panicked, last, items, pullsOnly, pullFailed,
          exhausted, host, copy >>

-----------------------------------------------------------------------------
(* Bounds of the model *)

\* Longest buffer handed to the decode engine in SpecDecode.
MaxLen == 4
\* Longest buffer iterated over in Spec, fixtures apart.
MaxIterLen == 3

-----------------------------------------------------------------------------
(* Bit tables, src/src/lde/x86.rs.  Each row is one u32 written most      *)
(* significant bit first, as in the source: entry k of row r classifies   *)
(* byte 32*r + k.                                                         *)

\* static TABLE_PREFIX: src/src/lde/x86.rs:14-24
TABLE_PREFIX ==
  << <<0,0,0,0,0,0,0,0,0,0,0,0,0,0,0,0,0,0,0,0,0,0,0,0,0,0,0,0,0,0,0,0>>,
     <<0,0,0,0,0,0,1,0,0,0,0,0,0,0,1,0,0,0,0,0,0,0,1,0,0,0,0,0,0,0,1,0>>,
     <<0,0,0,0,0,0,0,0,0,0,0,0,0,0,0,0,0,0,0,0,0,0,0,0,0,0,0,0,0,0,0,0>>,
     <<0,0,0,0,1,1,1,1,0,0,0,0,0,0,0,0,0,0,0,0,0,0,0,0,0,0,0,0,0,0,0,0>>,
     <<0,0,0,0,0,0,0,0,0,0,0,0,0,0,0,0,0,0,0,0,0,0,0,0,0,0,0,1,0,0,0,0>>,
     <<0,0,0,0,0,0,0,0,0,0,0,0,0,0,0,0,0,0,0,0,0,0,0,0,0,0,0,0,0,0,0,0>>,
     <<0,0,0,0,0,0,0,0,0,0,0,0,0,0,0,0,0,0,0,0,0,0,0,0,0,0,0,0,0,0,0,0>>,
     <<0,0,0,0,0,0,0,0,0,0,0,0,0,0,0,0,1,0,1,1,0,0,0,0,0,0,0,0,0,0,0,0>> >>

\* static TABLE_MODRM_A: src/src/lde/x86.rs:26-36
TABLE_MODRM_A ==
  << <<1,1,1,1,0,0,0,0,1,1,1,1,0,0,0,0,1,1,1,1,0,0,0,0,1,1,1,1,0,0,0,0>>,
     <<1,1,1,1,0,0,0,0,1,1,1,1,0,0,0,0,1,1,1,1,0,0,0,0,1,1,1,1,0,0,0,0>>,
     <<0,0,0,0,0,0,0,0,0,0,0,0,0,0,0,0,0,0,0,0,0,0,0,0,0,0,0,0,0,0,0,0>>,
     <<0,0,1,1,0,0,0,0,0,1,0,1,0,0,0,0,0,0,0,0,0,0,0,0,0,0,0,0,0,0,0,0>>,
     <<1,1,1,1,1,1,1,1,1,1,1,1,1,1,1,1,0,0,0,0,0,0,0,0,0,0,0,0,0,0,0,0>>,
     <<0,0,0,0,0,0,0,0,0,0,0,0,0,0,0,0,0,0,0,0,0,0,0,0,0,0,0,0,0,0,0,0>>,
     <<1,1,0,0,1,1,1,1,0,0,0,0,0,0,0,0,1,1,1,1,0,0,0,0,1,1,1,1,1,1,1,1>>,
     <<0,0,0,0,0,0,0,0,0,0,0,0,0,0,0,0,0,0,0,0,0,0,1,1,0,0,0,0,0,0,1,1>> >>

\* static TABLE_IMM8_A: src/src/lde/x86.rs:37-47
TABLE_IMM8_A ==
  << <<0,0,0,0,1,0,0,0,0,0,0,0,1,0,0,0,0,0,0,0,1,0,0,0,0,0,0,0,1,0,0,0>>,
     <<0,0,0,0,1,0,0,0,0,0,0,0,1,0,0,0,0,0,0,0,1,0,0,0,0,0,0,0,1,0,0,0>>,
     <<0,0,0,0,0,0,0,0,0,0,0,0,0,0,0,0,0,0,0,0,0,0,0,0,0,0,0,0,0,0,0,0>>,
     <<0,0,0,0,0,0,0,0,0,0,1,1,0,0,0,0,1,1,1,1,1,1,1,1,1,1,1,1,1,1,1,1>>,
     <<1,0,1,1,0,0,0,0,0,0,0,0,0,0,0,0,0,0,0,0,0,0,0,0,0,0,0,0,0,0,0,0>>,
     <<0,0,0,0,0,0,0,0,1,0,0,0,0,0,0,0,1,1,1,1,1,1,1,1,0,0,0,0,0,0,0,0>>,
     <<1,1,0,0,0,0,1,0,1,0,0,0,0,1,0,0,0,0,0,0,1,1,0,0,0,0,0,0,0,0,0,0>>,
     <<1,1,1,1,1,1,1,1,0,0,0,1,0,0,0,0,0,0,0,0,0,0,0,0,0,0,0,0,0,0,0,0>> >>

\* static TABLE_IMM_A: src/src/lde/x86.rs:48-58
TABLE_IMM_A ==
  << <<0,0,0,0,0,1,0,0,0,0,0,0,0,1,0,0,0,0,0,0,0,1,0,0,0,0,0,0,0,1,0,0>>,
     <<0,0,0,0,0,1,0,0,0,0,0,0,0,1,0,0,0,0,0,0,0,1,0,0,0,0,0,0,0,1,0,0>>,
     <<0,0,0,0,0,0,0,0,0,0,0,0,0,0,0,0,0,0,0,0,0,0,0,0,0,0,0,0,0,0,0,0>>,
     <<0,0,0,0,0,0,0,0,1,1,0,0,0,0,0,0,0,0,0,0,0,0,0,0,0,0,0,0,0,0,0,0>>,
     <<0,1,0,0,0,0,0,0,0,0,0,0,0,0,0,0,0,0,0,0,0,0,0,0,0,0,1,0,0,0,0,0>>,
     <<0,0,0,0,0,0,0,0,0,1,0,0,0,0,0,0,0,0,0,0,0,0,0,0,1,1,1,1,1,1,1,1>>,
     <<0,0,0,0,0,0,0,1,0,0,0,0,0,0,0,0,0,0,0,0,0,0,0,0,0,0,0,0,0,0,0,0>>,
     <<0,0,0,0,0,0,0,0,1,1,1,0,0,0,0,0,0,0,0,0,0,0,0,0,0,0,0,0,0,0,0,0>> >>

\* static TABLE_MODRM_B: src/src/lde/x86.rs:60-70
TABLE_MODRM_B ==
  << <<1,1,1,1,0,0,0,0,0,0,0,0,0,1,0,0,1,1,1,1,1,1,1,1,1,1,1,1,1,1,1,1>>,
     <<0,0,0,0,0,0,0,0,1,1,1,1,1,1,1,1,0,0,0,0,0,0,0,0,0,0,0,0,0,0,0,0>>,
     <<1,1,1,1,1,1,1,1,1,1,1,1,1,1,1,1,1,1,1,1,1,1,1,1,1,1,1,1,1,1,1,1>>,
     <<1,1,1,1,1,1,1,1,1,1,1,1,1,1,1,1,1,0,0,0,1,1,1,0,1,1,1,1,1,1,1,1>>,
     <<0,0,0,0,0,0,0,0,0,0,0,0,0,0,0,0,1,1,1,1,1,1,1,1,1,1,1,1,1,1,1,1>>,
     <<0,0,0,1,1,1,0,0,0,0,0,1,1,1,1,1,1,1,1,1,1,1,1,1,1,0,1,1,1,1,1,1>>,
     <<1,1,1,1,1,1,1,1,0,0,0,0,0,0,0,0,1,1,1,1,1,1,1,1,1,1,1,1,1,1,1,1>>,
     <<1,1,1,1,1,1,1,1,1,1,1,1,1,1,1,1,1,1,1,1,1,1,1,1,1,1,1,1,1,1,1,1>> >>

\* static TABLE_INVALID_B: src/src/lde/x86.rs:71-81
TABLE_INVALID_B ==
  << <<0,0,0,0,1,0,0,0,0,0,1,0,1,0,0,1,0,0,0,0,0,0,0,0,0,0,0,0,0,0,0,0>>,
     <<0,0,0,0,0,1,0,1,0,0,0,0,0,0,0,0,0,0,0,0,0,0,1,0,1,1,1,1,1,1,1,1>>,
     <<0,0,0,0,0,0,0,0,0,0,0,0,0,0,0,0,0,0,0,0,0,0,0,0,0,0,0,0,0,0,0,0>>,
     <<0,0,0,0,0,0,0,0,0,0,0,0,0,0,0,0,0,0,0,0,0,0,0,0,0,0,1,1,0,0,0,0>>,
     <<0,0,0,0,0,0,0,0,0,0,0,0,0,0,0,0,0,0,0,0,0,0,0,0,0,0,0,0,0,0,0,0>>,
     <<0,0,0,0,0,0,1,1,0,0,0,0,0,0,0,0,0,0,0,0,0,0,0,0,0,0,0,0,0,0,0,0>>,
     <<0,0,0,0,0,0,0,0,0,0,0,0,0,0,0,0,0,0,0,0,0,0,0,0,0,0,0,0,0,0,0,0>>,
     <<0,0,0,0,0,0,0,0,0,0,0,0,0,0,0,0,0,0,0,0,0,0,0,0,0,0,0,0,0,0,0,1>> >>

\* static TABLE_INVALID_C: src/src/lde/x86.rs:83-87
TABLE_INVALID_C ==
  << <<0,0,0,0,0,0,0,0,0,0,0,0,1,1,1,1,0,1,1,1,0,0,1,0,1,1,1,1,0,0,0,1>>,
     <<0,0,0,0,0,0,1,1,0,0,0,0,1,1,1,1,0,0,0,0,0,0,1,0,0,0,0,0,0,0,0,0>> >>

-----------------------------------------------------------------------------
(* Helpers of the decode engine *)

\* Option::None of an Option<u8> / Option<item>.
None == [some |-> FALSE]

Max(a, b) == IF a >= b THEN a ELSE b

Min(a, b) == IF a <= b THEN a ELSE b

\* impl Contains for [u32; 8]:
\*   (self[((val >> 5) & 7)] & (0x80000000 >> (val & 0x1F))) != 0
has(table, val) == table[((val \div 32) % 8) + 1][(val % 32) + 1] # 0

\* impl Contains for [u32; 2]: the same lookup when val < 0x40, else false.
has2(table, val) ==
    IF val < 64
    THEN table[((val \div 32) % 8) + 1][(val % 32) + 1] # 0
    ELSE FALSE

\* impl Contains for Range<u8>:
\*   val.wrapping_sub(self.start) < self.end.wrapping_sub(self.start)
range_has(start, end, val) == ((val - start) % 256) < ((end - start) % 256)

\* iter_next without the end test: reads opcode[i] whatever i is (a byte past
\* the end reads as 0).
iter_next_unchecked(opcode, i) ==
    [some |-> TRUE, val |-> IF i < Len(opcode) THEN opcode[i + 1] ELSE 0, at |-> i]

\* slice::Iter::next() on the iterator `it` standing at index i of opcode:
\* Some(&opcode[i]) while i < len, None at the end.  `at` is the index of the
\* byte that was examined (-1 when none was).
iter_next(opcode, i) ==
    IF i < Len(opcode)
    THEN [some |-> TRUE, val |-> opcode[i + 1], at |-> i]
    ELSE [some |-> FALSE, val |-> 0, at |-> -1]

\* `return 0;` out of a stage, having examined the bytes below ex.
Fail(ex) == [ok |-> FALSE, i |-> 0, modrm |-> FALSE, dsize |-> 0, msize |-> 0, ex |-> ex]

\* IsPrefix86 with 0x66 left out of the prefixes.
IsPrefix86_no_opsize(op) == op # 102 /\ has(TABLE_PREFIX, op)

\* Is op a prefix byte of the x86 engine?
IsPrefix86(op) == has(TABLE_PREFIX, op)

\* Is op a prefix byte of the x64 engine: a legacy prefix or a REX byte 0x40..0x4F.
IsPrefix64(op) == IsPrefix86(op) \/ (64 <= op /\ op <= 79)

\* The prefix loop.  i counts the bytes `it` has consumed; ddef / mdef are the
\* default immediate / displacement widths.  On success op is the first
\* non-prefix byte, already consumed.
RECURSIVE prefix_loop(_, _, _, _, _)
prefix_loop(opcode, i, ddef, mdef, rex) ==
    LET r == iter_next(opcode, i) IN
    IF ~r.some
    THEN [ok |-> FALSE, i |-> i, op |-> 0, ddef |-> ddef, mdef |-> mdef]
    ELSE IF (IF rex THEN IsPrefix64(r.val) ELSE IsPrefix86(r.val))
    THEN prefix_loop(opcode, i + 1,
                     IF r.val = 102 THEN 2 ELSE ddef,                 \* 0x66
                     IF r.val # 102 /\ r.val = 103 THEN 2 ELSE mdef,  \* 0x67
                     rex)
    ELSE [ok |-> TRUE, i |-> i + 1, op |-> r.val, ddef |-> ddef, mdef |-> mdef]

\* invalid_38 without the ranges above 0x40: table lookup only.
invalid_38_table_only(op) == op < 64 /\ has2(TABLE_INVALID_C, op)

\* Three-byte opcodes 0F 38 xx: is the third byte invalid?
invalid_38(op) ==
    IF op < 64
    THEN has2(TABLE_INVALID_C, op)
    ELSE ~(range_has(64, 66, op) \/ range_has(128, 130, op) \/ range_has(240, 242, op))

\* Three-byte opcodes 0F 3A xx: is the third byte invalid?
invalid_3A(op) ==
    ~(range_has(8, 16, op) \/ range_has(20, 24, op) \/ range_has(32, 35, op)
      \/ range_has(64, 67, op) \/ range_has(96, 100, op))

\* `if op == 0x0F { ... }`: two- and three-byte opcodes.  p is the result of
\* the prefix loop.
escape_opcode(opcode, p) ==
    LET r2 == iter_next(opcode, p.i) IN
    IF ~r2.some THEN Fail(p.i)
    ELSE IF r2.val = 56 THEN                                          \* 0x38
        LET r3 == iter_next(opcode, p.i + 1) IN
        IF ~r3.some THEN Fail(p.i + 1)
        ELSE IF invalid_38(r3.val) THEN Fail(p.i + 2)
        ELSE [ok |-> TRUE, i |-> p.i + 2, modrm |-> TRUE, dsize |-> 0, msize |-> 0,
              ex |-> p.i + 2]
    ELSE IF r2.val = 58 THEN                                          \* 0x3A
        LET r3 == iter_next(opcode, p.i + 1) IN
        IF ~r3.some THEN Fail(p.i + 1)
        ELSE IF invalid_3A(r3.val) THEN Fail(p.i + 2)
        ELSE [ok |-> TRUE, i |-> p.i + 2, modrm |-> TRUE, dsize |-> 1, msize |-> 0,
              ex |-> p.i + 2]
    ELSE
        LET op == r2.val IN
        IF has(TABLE_INVALID_B, op) THEN Fail(p.i + 1)
        ELSE [ok |-> TRUE, i |-> p.i + 1, modrm |-> has(TABLE_MODRM_B, op),
              dsize |->
                  (IF range_has(112, 116, op) \/ op = 164 \/ op = 172 \/ op = 186
                      \/ op = 194 \/ range_has(196, 199, op) THEN 1 ELSE 0)
                  + (IF op \div 16 = 8 THEN p.ddef ELSE 0)            \* (op & 0xF0) == 0x80
                  + (IF op = 14 \/ range_has(201, 207, op) THEN 2 ELSE 0),
              msize |-> 0, ex |-> p.i + 1]

\* one_byte_opcode with the absolute-address forms A0..A3 sized by the
\* operand-size default.
one_byte_opcode_moffs_by_ddef(opcode, p) ==
    LET op == p.op
        test == op = 246 \/ op = 247
        pk == iter_next(opcode, p.i)
    IN
    IF test /\ ~pk.some THEN Fail(p.i)
    ELSE [ok |-> TRUE, i |-> p.i, modrm |-> has(TABLE_MODRM_A, op),
          dsize |->
              (IF test /\ (pk.val \div 8) % 8 = 0
               THEN (IF op % 2 # 0 THEN p.ddef ELSE 1) ELSE 0)
              + (IF has(TABLE_IMM8_A, op) THEN 1 ELSE 0)
              + (IF op = 154 \/ op = 194 \/ op = 200 \/ op = 202 \/ op = 234 THEN 2 ELSE 0)
              + (IF has(TABLE_IMM_A, op) THEN p.ddef ELSE 0),
          msize |-> IF op \div 4 = 40 THEN p.ddef ELSE 0,
          ex |-> IF test THEN Max(p.i, pk.at + 1) ELSE p.i]

\* one_byte_opcode that takes no look at the byte after F6 / F7: never an
\* immediate for them.
one_byte_opcode_no_peek(opcode, p) ==
    LET op == p.op IN
    [ok |-> TRUE, i |-> p.i, modrm |-> has(TABLE_MODRM_A, op),
     dsize |->
         (IF has(TABLE_IMM8_A, op) THEN 1 ELSE 0)
         + (IF op = 154 \/ op = 194 \/ op = 200 \/ op = 202 \/ op = 234 THEN 2 ELSE 0)
         + (IF has(TABLE_IMM_A, op) THEN p.ddef ELSE 0),
     msize |-> IF op \div 4 = 40 THEN p.mdef ELSE 0,
     ex |-> p.i]

\* one_byte_opcode without the fixed 16-bit immediate of 9A C2 C8 CA EA.
one_byte_opcode_no_imm16(opcode, p) ==
    LET op == p.op
        test == op = 246 \/ op = 247
        pk == iter_next(opcode, p.i)
    IN
    IF test /\ ~pk.some THEN Fail(p.i)
    ELSE [ok |-> TRUE, i |-> p.i, modrm |-> has(TABLE_MODRM_A, op),
          dsize |->
              (IF test /\ (pk.val \div 8) % 8 = 0
               THEN (IF op % 2 # 0 THEN p.ddef ELSE 1) ELSE 0)
              + (IF has(TABLE_IMM8_A, op) THEN 1 ELSE 0)
              + (IF has(TABLE_IMM_A, op) THEN p.ddef ELSE 0),
          msize |-> IF op \div 4 = 40 THEN p.mdef ELSE 0,
          ex |-> IF test THEN Max(p.i, pk.at + 1) ELSE p.i]

\* The else branch: one-byte opcodes.  Opcodes 0xF6 / 0xF7 peek the next byte
\* through a clone of the iterator, which consumes nothing.
one_byte_opcode(opcode, p) ==
    LET op == p.op
        test == op = 246 \/ op = 247                                  \* 0xF6, 0xF7
        pk == iter_next(opcode, p.i)
    IN
    IF test /\ ~pk.some THEN Fail(p.i)
    ELSE [ok |-> TRUE, i |-> p.i, modrm |-> has(TABLE_MODRM_A, op),
          dsize |->
              (IF test /\ (pk.val \div 8) % 8 = 0                     \* (peek & 0x38) == 0
               THEN (IF op % 2 # 0 THEN p.ddef ELSE 1) ELSE 0)
              + (IF has(TABLE_IMM8_A, op) THEN 1 ELSE 0)
              + (IF op = 154 \/ op = 194 \/ op = 200 \/ op = 202 \/ op = 234 THEN 2 ELSE 0)
              + (IF has(TABLE_IMM_A, op) THEN p.ddef ELSE 0),
          msize |-> IF op \div 4 = 40 THEN p.mdef ELSE 0,             \* (op & 0xFC) == 0xA0
          ex |-> IF test THEN Max(p.i, pk.at + 1) ELSE p.i]

\* modrm_stage without the scaled index byte: rm = 100 is taken as any other rm.
modrm_stage_no_sib(opcode, o, mdef) ==
    IF ~o.modrm THEN o
    ELSE
        LET r == iter_next(opcode, o.i) IN
        IF ~r.some THEN Fail(o.ex)
        ELSE
            LET mode == (r.val \div 64) * 64
                rm == r.val % 8
            IN
            IF mode = 192 THEN [o EXCEPT !.i = o.i + 1, !.ex = Max(o.ex, o.i + 1)]
            ELSE [o EXCEPT
                    !.i = o.i + 1,
                    !.ex = Max(o.ex, o.i + 1),
                    !.msize = o.msize
                        + (IF mode = 0 THEN (IF rm = 5 THEN 4 ELSE 0)
                           ELSE IF mode = 64 THEN 1
                           ELSE IF mode = 128 THEN mdef
                           ELSE 0)]

\* `if modrm { ... }`: the Mod R/M byte, the scaled index byte and the
\* displacement width.  o is the result of the opcode stage.
modrm_stage(opcode, o, mdef) ==
    IF ~o.modrm THEN o
    ELSE
        LET r == iter_next(opcode, o.i) IN
        IF ~r.some THEN Fail(o.ex)
        ELSE
            LET mode == (r.val \div 64) * 64                          \* op & 0xC0
                rm == r.val % 8                                       \* op & 0b111
                sib == iter_next(opcode, o.i + 1)
            IN
            IF mode = 192 THEN [o EXCEPT !.i = o.i + 1, !.ex = Max(o.ex, o.i + 1)]
            ELSE IF rm = 4 /\ ~sib.some THEN Fail(Max(o.ex, o.i + 1))
            ELSE [o EXCEPT
                    !.i = IF rm = 4 THEN o.i + 2 ELSE o.i + 1,
                    !.ex = Max(o.ex, IF rm = 4 THEN o.i + 2 ELSE o.i + 1),
                    !.msize = o.msize
                        + (IF rm = 4 /\ mode = 0 /\ sib.val % 8 = 5 THEN 4 ELSE 0)
                        + (IF mode = 0 THEN (IF rm = 5 THEN 4 ELSE 0)
                           ELSE IF mode = 64 THEN 1
                           ELSE IF mode = 128 THEN mdef
                           ELSE 0)]

\* bounds_check with `<` for `<=`.
bounds_check_strict(total, len) == IF total < len THEN total ELSE 0

\* bounds_check left out: the total is returned as it is.
bounds_check_none(total, len) == total

\* `if total as usize <= opcode.len() { total } else { 0 }`
bounds_check(total, len) == IF total <= len THEN total ELSE 0

\* "Get total length and bounds check": the bytes consumed by `it` plus the
\* immediate and displacement widths.  m is the result of the Mod R/M stage.
\* total is a u32 in the source; the buffers of the model keep it far below 2^32.
lde_total(opcode, m) ==
    IF ~m.ok THEN [ret |-> 0, examined |-> m.ex]
    ELSE [ret |-> bounds_check(m.i + (m.dsize + m.msize), Len(opcode)), examined |-> m.ex]

\* The engine from the Mod R/M stage on; o is the result of the opcode stage.
lde_modrm(opcode, o, mdef) ==
    IF ~o.ok THEN [ret |-> 0, examined |-> o.ex]
    ELSE lde_total(opcode, modrm_stage(opcode, o, mdef))

\* The engine from the opcode stage on; p is the result of the prefix loop.
lde_opcode(opcode, p) ==
    IF ~p.ok THEN [ret |-> 0, examined |-> p.i]
    ELSE lde_modrm(opcode,
                   IF p.op = 15 THEN escape_opcode(opcode, p) ELSE one_byte_opcode(opcode, p),
                   p.mdef)

\* The engine proper.  rex selects the prefix test.  ret is the returned
\* length, examined the number of leading bytes of opcode that were read.
lde_engine(opcode, rex) == lde_opcode(opcode, prefix_loop(opcode, 0, 4, 4, rex))

\* lde::x86::lde_int
lde_int(opcode) == lde_engine(opcode, FALSE).ret

\* lde::x64::lde_int: the same walk with REX bytes taken as prefixes.
lde_int_x64(opcode) == lde_engine(opcode, TRUE).ret

-----------------------------------------------------------------------------
(* The instruction sets and their virtual addresses *)

\* One limb of a virtual address holds 16 bits.
LimbBase == 256 * 256

\* type Va = u32 (x86) / u64 (x64), as a number of 16-bit limbs.
VaLimbs(a) == IF a = "x86" THEN 2 ELSE 4

\* The k least significant limbs of n: a cast `n as u32` / `n as u64`.
RECURSIVE ToLimbs(_, _)
ToLimbs(n, k) == IF k = 0 THEN <<>> ELSE <<n % LimbBase>> \o ToLimbs(n \div LimbBase, k - 1)

\* fn as_va(len: usize) -> Va { len as u32 } / { len as u64 }
as_va(a, n) == ToLimbs(n, VaLimbs(a))

\* Limb-wise addition with carry: the sum modulo 2^width and the carry out.
RECURSIVE AddLimbs(_, _, _)
AddLimbs(x, y, c) ==
    IF x = <<>> THEN [limbs |-> <<>>, carry |-> c]
    ELSE LET s == Head(x) + Head(y) + c
             r == AddLimbs(Tail(x), Tail(y), s \div LimbBase)
         IN [limbs |-> <<s % LimbBase>> \o r.limbs, carry |-> r.carry]

\* `va += rhs` on u32 / u64: the wrapped sum, and whether the addition
\* overflowed (a panic when overflow checks are compiled in, a wrap otherwise).
va_add_assign(v, rhs) ==
    LET r == AddLimbs(v, rhs, 0) IN [va |-> r.limbs, overflow |-> r.carry # 0]

\* Ord on u32 / u64: x <= y, most significant limb first.
RECURSIVE va_le(_, _)
va_le(x, y) ==
    IF x = <<>> THEN TRUE
    ELSE LET n == Len(x) IN
         IF x[n] # y[n] THEN x[n] < y[n]
         ELSE va_le(SubSeq(x, 1, n - 1), SubSeq(y, 1, n - 1))

\* The bytes a slice [ptr, len] of buffer b covers.
SliceBytes(b, s) == SubSeq(b, s.ptr + 1, s.ptr + s.len)

\* InsnSet::ld / Isa::ld: the engine of the instruction set on a slice.
ld(a, opcode) == IF a = "x86" THEN lde_int(opcode) ELSE lde_int_x64(opcode)

\* Isa::inst_len(bytes).total_len: the total length of the structured result.
inst_len_total(a, opcode) == ld(a, opcode)

-----------------------------------------------------------------------------
(* The iterators.  Each method is an operator from the fields it reads to  *)
(* the fields it writes: bytes (the remaining slice), va, the value        *)
(* returned (ret) and whether it panicked.                                 *)

\* An item: the view (ptr, len into the buffer) and its virtual address.
Item(p, l, v) == [some |-> TRUE, ptr |-> p, len |-> l, va |-> v]

\* consume_body without the advance of va.
consume_body_stale_va(a, chk, s, v, n) ==
    [bytes |-> [ptr |-> s.ptr + Min(n, s.len), len |-> s.len - Min(n, s.len)],
     va |-> v, panic |-> FALSE, ret |-> Item(s.ptr, Min(n, s.len), v)]

\* consume_body without the advance of the slice.
consume_body_keep_bytes(a, chk, s, v, n) ==
    [bytes |-> s, va |-> va_add_assign(v, as_va(a, Min(n, s.len))).va, panic |-> FALSE,
     ret |-> Item(s.ptr, Min(n, s.len), v)]

\* The common body of the three consume() methods:
\*   let n = cmp::min(n, self.bytes.len());
\*   self.bytes = &self.bytes[n..];   (IterMut: split_at_mut(n), bytes = tail)
\*   self.va += as_va(n);
\* The slice is replaced before the addition, so a panicking addition leaves
\* bytes advanced and va as it was.
consume_body(a, chk, s, v, n) ==
    LET m == Min(n, s.len)
        sum == va_add_assign(v, as_va(a, m))
        pan == chk /\ sum.overflow
    IN [bytes |-> [ptr |-> s.ptr + m, len |-> s.len - m],
        va |-> IF pan THEN v ELSE sum.va,
        panic |-> pan,
        ret |-> IF pan THEN None ELSE Item(s.ptr, m, v)]

\* LDE::consume(&mut self, n: usize): returns nothing.
LDE_consume(a, chk, s, v, n) == [consume_body(a, chk, s, v, n) EXCEPT !.ret = None]

\* Iter::consume(&mut self, n: usize): returns nothing.
Iter_consume(a, chk, s, v, n) == [consume_body(a, chk, s, v, n) EXCEPT !.ret = None]

\* IterMut::consume(&mut self, n: usize) -> (&mut OpCode, Va): returns the
\* head that was split off and the address before the advance.
IterMut_consume(a, chk, s, v, n) == consume_body(a, chk, s, v, n)

\* The result of a method that yields nothing and changes nothing.
Nothing(s, v) == [bytes |-> s, va |-> v, panic |-> FALSE, ret |-> None]

\* What next() returns for a consume that returned c: the item, unless the
\* consume panicked.
Yield(item, c) == [c EXCEPT !.ret = IF c.panic THEN None ELSE item]

\* LDE::peek(&self), given len = E::ld(self.bytes):
\*   if len > 0 { Some((&self.bytes[..len as usize]).into()) } else { None }
\* The slice index panics if len exceeds the slice.
LDE_peek_len(s, v, len) ==
    IF len > 0
    THEN (IF len > s.len
          THEN [Nothing(s, v) EXCEPT !.panic = TRUE]
          ELSE [Nothing(s, v) EXCEPT !.ret = Item(s.ptr, len, v)])
    ELSE Nothing(s, v)

\* LDE::peek(&self)
LDE_peek(a, b, s, v) == LDE_peek_len(s, v, ld(a, SliceBytes(b, s)))

\* LDE_next_map that steps over one byte when peek returned None.
LDE_next_map_skip(a, chk, s, v, pk) ==
    IF pk.panic THEN pk
    ELSE IF ~pk.ret.some THEN LDE_consume(a, chk, s, v, 1)
    ELSE Yield(pk.ret, LDE_consume(a, chk, s, v, pk.ret.len))

\* The closure of LDE::next() applied to what peek returned (pk):
\*   |code| { let va = self.va; self.consume(code.len()); (code, va) }
LDE_next_map(a, chk, s, v, pk) ==
    IF pk.panic \/ ~pk.ret.some THEN pk
    ELSE Yield(pk.ret, LDE_consume(a, chk, s, v, pk.ret.len))

\* LDE::next(): self.peek().map(...)
LDE_next(a, chk, b, s, v) == LDE_next_map(a, chk, s, v, LDE_peek(a, b, s, v))

\* Iter::next(), given total_len = X::inst_len(self.bytes).total_len:
\*   if total_len > 0 { let n = cmp::min(total_len as usize, self.bytes.len());
\*       let inst = Inst::new(&self.bytes[..n], self.va, inst_len);
\*       self.consume(n); Some(inst) } else { None }
Iter_next_len(a, chk, s, v, total_len) ==
    IF total_len > 0
    THEN Yield(Item(s.ptr, Min(total_len, s.len), v),
               Iter_consume(a, chk, s, v, Min(total_len, s.len)))
    ELSE Nothing(s, v)

\* Iter::next()
Iter_next(a, chk, b, s, v) == Iter_next_len(a, chk, s, v, inst_len_total(a, SliceBytes(b, s)))

\* IterMut_next_len that steps over one byte when the engine returned 0.
IterMut_next_skip(a, chk, s, v, len) ==
    IF len > 0 THEN IterMut_consume(a, chk, s, v, len)
    ELSE [IterMut_consume(a, chk, s, v, 1) EXCEPT !.ret = None]

\* IterMut::next(), given len = X::ld(self.bytes):
\*   if len > 0 { Some(self.consume(len as usize)) } else { None }
IterMut_next_len(a, chk, s, v, len) ==
    IF len > 0 THEN IterMut_consume(a, chk, s, v, len) ELSE Nothing(s, v)

\* IterMut::next()
IterMut_next(a, chk, b, s, v) == IterMut_next_len(a, chk, s, v, ld(a, SliceBytes(b, s)))

-----------------------------------------------------------------------------
(* Inputs *)

\* Bytes the decode engine is run on in SpecDecode:
\* 04 05 0F 38 3A 40 66 67 A1 B8 C0 F6 F7
ByteSamples == {4, 5, 15, 56, 58, 64, 102, 103, 161, 184, 192, 246, 247}

\* Bytes of the buffers iterated over in Spec: 04 0F 40 66
IterSamples == {4, 15, 64, 102}

\* b"\x40\x55\x48\x83\xEC*\x00\x80": the buffer of the crate's examples, with
\* x for the immediate byte.
X64DocWith(x) == <<64, 85, 72, 131, 236, x, 0, 128>>

\* The immediate bytes the examples use: '*' and 0xFC.
X64DocImms == {42, 252}

\* b"\x40\x55\x48\x83\xEC\x2A": the buffer of the examples of peek and consume.
X64Short == <<64, 85, 72, 131, 236, 42>>

SeqsUpTo(S, n) == UNION {[1..k -> S] : k \in 0..n}

DecodeBuffers == SeqsUpTo(ByteSamples, MaxLen)

IterBuffers == SeqsUpTo(IterSamples, MaxIterLen) \cup {X64DocWith(x) : x \in X64DocImms} \cup {X64Short}

\* The largest address of the instruction set: every limb 0xFFFF.
VaMax(a) == [k \in 1..VaLimbs(a) |-> LimbBase - 1]

\* 0x1000, the address of the examples.
VaDoc(a) == as_va(a, 4096)

\* Starting addresses: 0x1000 and the last but one address of the type.
StartVas(a) == {VaDoc(a), [VaMax(a) EXCEPT ![1] = LimbBase - 2]}

\* `last` when no decode result is recorded.
NoDec == [ret |-> 0, examined |-> 0]

\* A little-endian machine (x86, x86_64, ...): the machine of the iterator runs,
\* where byte order plays no part.
LittleEndian == [big_endian |-> FALSE]

\* No second iterator has been made.
NoCopy == [live |-> FALSE]

-----------------------------------------------------------------------------
(* The state machine *)

\* E::lde(bytes, va) / LDE::new: an iterator over the whole buffer.
Init ==
    /\ arch \in {"x86", "x64"}
    /\ kind \in {"LDE", "Iter", "IterMut"}
    /\ checked \in BOOLEAN
    /\ buf \in IterBuffers
    /\ bytes = [ptr |-> 0, len |-> Len(buf)]
    /\ va \in StartVas(arch)
    /\ va0 = va
    /\ panicked = FALSE
    /\ last = [op |-> "new", n |-> 0, ret |-> None, dec |-> NoDec]
    /\ items = <<>>
    /\ pullsOnly = TRUE
    /\ pullFailed = FALSE
    /\ exhausted = FALSE
    /\ host = LittleEndian
    /\ copy = NoCopy

\* A pull whose method returned r.
Pull(r) ==
    /\ bytes' = r.bytes
    /\ va' = r.va
    /\ panicked' = r.panic
    /\ last' = [op |-> "next", n |-> 0, ret |-> r.ret, dec |-> NoDec]
    /\ items' = IF pullsOnly /\ r.ret.some THEN Append(items, r.ret) ELSE items
    /\ pullFailed' = (pullFailed \/ (~r.panic /\ ~r.ret.some))
    /\ exhausted' = (exhausted \/ (~r.panic /\ ~r.ret.some))
    /\ UNCHANGED << arch, kind, checked, buf, va0, pullsOnly, host, copy >>

\* A consume(n) by the caller whose method returned r.
Skip(n, r) ==
    /\ bytes' = r.bytes
    /\ va' = r.va
    /\ panicked' = r.panic
    /\ last' = [op |-> "consume", n |-> n, ret |-> r.ret, dec |-> NoDec]
    /\ items' = <<>>
    /\ pullsOnly' = FALSE
    /\ exhausted' = FALSE
    /\ UNCHANGED << arch, kind, checked, buf, va0, pullFailed, host, copy >>

\* A peek whose method returned r.
Peek(r) ==
    /\ bytes' = r.bytes
    /\ va' = r.va
    /\ panicked' = r.panic
    /\ last' = [op |-> "peek", n |-> 0, ret |-> r.ret, dec |-> NoDec]
    /\ UNCHANGED << arch, kind, checked, buf, va0, items, pullsOnly, pullFailed, exhausted,
                    host, copy >>

\* Byte counts a caller passes to consume: everything up to one past the buffer.
SkipCounts == 0..(Len(buf) + 1)

LDENext ==
    /\ kind = "LDE" /\ ~panicked
    /\ Pull(LDE_next(arch, checked, buf, bytes, va))

IterNext ==
    /\ kind = "Iter" /\ ~panicked
    /\ Pull(Iter_next(arch, checked, buf, bytes, va))

IterMutNext ==
    /\ kind = "IterMut" /\ ~panicked
    /\ Pull(IterMut_next(arch, checked, buf, bytes, va))

LDEPeek ==
    /\ kind = "LDE" /\ ~panicked
    /\ Peek(LDE_peek(arch, buf, bytes, va))

LDEConsume ==
    /\ kind = "LDE" /\ ~panicked
    /\ \E n \in SkipCounts : Skip(n, LDE_consume(arch, checked, bytes, va, n))

IterConsume ==
    /\ kind = "Iter" /\ ~panicked
    /\ \E n \in SkipCounts : Skip(n, Iter_consume(arch, checked, bytes, va, n))

IterMutConsume ==
    /\ kind = "IterMut" /\ ~panicked
    /\ \E n \in SkipCounts : Skip(n, IterMut_consume(arch, checked, bytes, va, n))

Next ==
    \/ LDENext
    \/ IterNext
    \/ IterMutNext
    \/ LDEPeek
    \/ LDEConsume
    \/ IterConsume
    \/ IterMutConsume

Spec == Init /\ [][Next]_vars

\* The decode engine as a function of its input: x86::ld on every buffer.
InitDecode ==
    /\ arch = "x86"
    /\ kind = "LDE"
    /\ checked = FALSE
    /\ buf \in DecodeBuffers
    /\ bytes = [ptr |-> 0, len |-> Len(buf)]
    /\ va = VaDoc(arch)
    /\ va0 = va
    /\ panicked = FALSE
    /\ last = [op |-> "new", n |-> 0, ret |-> None, dec |-> NoDec]
    /\ items = <<>>
    /\ pullsOnly = TRUE
    /\ pullFailed = FALSE
    /\ exhausted = FALSE
    /\ host = LittleEndian
    /\ copy = NoCopy

\* E::ld(bytes) on the whole buffer.
Ld ==
    /\ last' = [op |-> "ld", n |-> 0, ret |-> None,
                dec |-> lde_engine(SliceBytes(buf, bytes), arch = "x64")]
    /\ UNCHANGED << arch, kind, checked, buf, bytes, va, va0, panicked, items,
                    pullsOnly, pullFailed, exhausted, host, copy >>

NextDecode == Ld

SpecDecode == InitDecode /\ [][NextDecode]_vars

-----------------------------------------------------------------------------
(* Properties of the decode engine, checked under SpecDecode *)

\* C1: for every buffer the x86 engine returns a length r with
\* 0 <= r <= len(b), and it examines no byte at an index >= len(b): the
\* bytes it has read are the first `examined` ones, and examined <= len(b).
C1_LengthWithinInput ==
    last.op = "ld" =>
        /\ 0 <= last.dec.ret
        /\ last.dec.ret <= Len(buf)
        /\ last.dec.examined <= Len(buf)

\* C1 witness: a truncated input of full length on which the engine read
\* every byte, ran out of bytes and returned the sentinel.
C1_Witness ==
    /\ last.op = "ld"
    /\ Len(buf) = MaxLen
    /\ last.dec.examined = Len(buf)
    /\ last.dec.ret = 0

C3_TruncatedIsZero ==
    last.op = "ld" =>
        /\ (buf = <<>> => last.dec.ret = 0)
        /\ ((\A i \in 1..Len(buf) : IsPrefix86(buf[i])) => last.dec.ret = 0)
        /\ (last.dec.ret > 0 =>
                \A k \in 0..(last.dec.ret - 1) : lde_int(SubSeq(buf, 1, k)) = 0)

\* C3 witness: a prefixed instruction of three or more bytes was decoded, so
\* its proper prefixes cut it after the prefix, after the opcode and inside
\* its operand.
C3_Witness ==
    /\ last.op = "ld"
    /\ last.dec.ret >= 3
    /\ IsPrefix86(buf[1])

-----------------------------------------------------------------------------
(* Properties of the iterators, checked under Spec *)

\* The sum of the lengths of the first n items.
RECURSIVE SumLen(_, _)
SumLen(its, n) == IF n = 0 THEN 0 ELSE SumLen(its, n - 1) + its[n].len

\* v = w + n as numbers: the addition does not leave the width of the type.
IsSum(a, v, w, n) == AddLimbs(w, as_va(a, n), 0) = [limbs |-> v, carry |-> 0]

\* v = w + n modulo 2^width.
IsSumModWidth(a, v, w, n) == AddLimbs(w, as_va(a, n), 0).limbs = v

\* C4: driven by pulls only, the n-th yielded item is the slice of the buffer
\* at offset s_n = the sum of the lengths yielded before it, its address is
\* va0 + s_n, and the lengths yielded sum to at most len(b).
C4_Original ==
    pullsOnly =>
        /\ \A n \in 1..Len(items) :
              /\ items[n].ptr = SumLen(items, n - 1)
              /\ IsSum(arch, items[n].va, va0, SumLen(items, n - 1))
        /\ SumLen(items, Len(items)) <= Len(buf)

\* C4 with the addresses taken modulo the width of the address type.
C4_ModuloWidth ==
    pullsOnly =>
        /\ \A n \in 1..Len(items) :
              /\ items[n].ptr = SumLen(items, n - 1)
              /\ IsSumModWidth(arch, items[n].va, va0, SumLen(items, n - 1))
        /\ SumLen(items, Len(items)) <= Len(buf)

\* C5: a pull at a position where decode returns the sentinel yields nothing
\* and leaves bytes and va as they were, also when bytes remain; a peek never
\* changes them; a step that changes them is a consume or a pull at a
\* position that decodes.
C5_OnlyConsumeMutates ==
    [][ /\ (last'.op = "next" /\ ld(arch, SliceBytes(buf, bytes)) = 0) =>
               (~last'.ret.some /\ bytes' = bytes /\ va' = va /\ ~panicked')
        /\ last'.op = "peek" => (bytes' = bytes /\ va' = va)
        /\ (bytes' # bytes \/ va' # va) =>
               \/ last'.op = "consume"
               \/ (last'.op = "next" /\ ld(arch, SliceBytes(buf, bytes)) > 0)
      ]_vars

\* C5 witness: a pull has failed at a position with bytes remaining.
C5_Witness ==
    /\ last.op = "next"
    /\ ~last.ret.some
    /\ ~panicked
    /\ bytes.len > 0
    /\ ld(arch, SliceBytes(buf, bytes)) = 0

\* C6 as stated: once a pull has returned nothing, no later pull yields an
\* item, whatever pulls and consumes are applied in between.
C6_Original ==
    [][ (pullFailed /\ last'.op = "next") => ~last'.ret.some ]_vars

\* C6 amended: once a pull has returned nothing, no later pull yields an item
\* as long as no consume is applied after the failed pull.
C6_ExhaustedUntilConsume ==
    [][ (exhausted /\ last'.op = "next") => ~last'.ret.some ]_vars

\* C6 witness: a pull has failed, nothing was consumed since, and undecoded
\* bytes remain.
C6_Witness ==
    /\ exhausted
    /\ last.op \in {"next", "peek"}
    /\ bytes.len > 0
    /\ Len(items) > 0

\* C7: in every step the address does not decrease and grows by exactly the
\* number of bytes the step removed from bytes; the addition neither wraps
\* nor fails.
C7_Original ==
    [][ /\ va_le(va, va')
        /\ IsSum(arch, va', va, bytes.len - bytes'.len)
        /\ ~panicked'
      ]_vars

\* C8: bytes is always a suffix of the buffer, its length never grows, and
\* va - va0 = len(b) - len(bytes).
C8_Original ==
    /\ bytes.ptr + bytes.len = Len(buf)
    /\ bytes.ptr >= 0 /\ bytes.len >= 0
    /\ IsSum(arch, va, va0, Len(buf) - bytes.len)

\* C8 with the address taken modulo the width of the address type, for
\* operations that returned.
C8_ModuloWidth ==
    /\ bytes.ptr + bytes.len = Len(buf)
    /\ bytes.ptr >= 0 /\ bytes.len >= 0
    /\ ~panicked => IsSumModWidth(arch, va, va0, Len(buf) - bytes.len)

\* C8, the length of bytes never grows.
C8_LengthShrinks == [][ bytes'.len <= bytes.len ]_vars

\* C9: consume(n) never fails, removes min(n, len(bytes)) bytes from the
\* front of bytes and advances va by that amount.
C9_Original ==
    [][ last'.op = "consume" =>
            /\ ~panicked'
            /\ bytes' = [ptr |-> bytes.ptr + Min(last'.n, bytes.len),
                         len |-> bytes.len - Min(last'.n, bytes.len)]
            /\ IsSum(arch, va', va, Min(last'.n, bytes.len))
      ]_vars

\* C9 with the address taken modulo the width of the address type, for
\* calls that returned.
C9_ModuloWidth ==
    [][ last'.op = "consume" =>
            /\ bytes' = [ptr |-> bytes.ptr + Min(last'.n, bytes.len),
                         len |-> bytes.len - Min(last'.n, bytes.len)]
            /\ ~panicked' => IsSumModWidth(arch, va', va, Min(last'.n, bytes.len))
      ]_vars

\* The two items the example buffer yields from 0x1000.
X64DocItems ==
    << Item(0, 2, VaDoc("x64")), Item(2, 4, as_va("x64", 4098)) >>

\* C10: x64 decoding of 40 55 48 83 EC x 00 80 returns 2; iterating it from
\* 0x1000 by pulls yields 40 55 at 0x1000, then 48 83 EC x at 0x1002, then
\* stops with 00 80 left; and a REX byte before an instruction is counted in
\* its length.
C10_X64Example ==
    /\ (arch = "x64" /\ buf \in {X64DocWith(x) : x \in X64DocImms}
            /\ va0 = VaDoc("x64") /\ pullsOnly) =>
        /\ ld(arch, buf) = 2
        /\ items = SubSeq(X64DocItems, 1, Len(items))
        /\ (last.op = "next" /\ ~last.ret.some) =>
              (items = X64DocItems /\ bytes = [ptr |-> 6, len |-> 2] /\ ~panicked)
    /\ (arch = "x64" /\ Len(buf) > 0 /\ buf[1] \in 64..79) =>
        ld(arch, buf) = IF ld(arch, Tail(buf)) > 0 THEN ld(arch, Tail(buf)) + 1 ELSE 0

\* C10 witness: the example buffer was iterated to the end: two items, then
\* a pull that returned nothing.
C10_Witness ==
    /\ arch = "x64" /\ buf = X64DocWith(42) /\ va0 = VaDoc("x64") /\ pullsOnly
    /\ last.op = "next" /\ ~last.ret.some
    /\ Len(items) = 2

-----------------------------------------------------------------------------
(* The opcode view: typed reads and writes at an offset.  A value of an    *)
(* integer type of w bytes is the sequence of its w base-256 digits, least *)
(* significant first; an offset is a usize of four 16-bit limbs.           *)

\* Longest view over plain memory in SpecView.
MaxViewLen == 4
\* Writes applied to one view in SpecView.
MaxWrites == 2
\* Reads made of one view in SpecView.
MaxReads == 1

\* unsafe impl Int for u8, u16, u32, u64, i8, i16, i32, i64
IntTypes == {"u8", "u16", "u32", "u64", "i8", "i16", "i32", "i64"}

\* mem::size_of::<T>()
size_of(T) ==
    IF T \in {"u8", "i8"} THEN 1
    ELSE IF T \in {"u16", "i16"} THEN 2
    ELSE IF T \in {"u32", "i32"} THEN 4
    ELSE 8

\* A usize: 64 bits as four limbs.
Usize(n) == ToLimbs(n, 4)

\* usize::MAX
UsizeMax == [i \in 1..4 |-> LimbBase - 1]

\* The w base-256 digits of n, least significant first.
RECURSIVE ToDigits(_, _)
ToDigits(n, w) == IF w = 0 THEN <<>> ELSE <<n % 256>> \o ToDigits(n \div 256, w - 1)

Reverse(q) == [i \in 1..Len(q) |-> q[Len(q) + 1 - i]]

\* The bytes of a value in memory, and the value of bytes in memory, in the
\* byte order of the machine: what copying a T to or from a byte pointer does.
ne_bytes(h, digits) == IF h.big_endian THEN Reverse(digits) ELSE digits

\* self.0[offset..offset + mem::size_of::<T>()] on a slice of len bytes:
\* the addition panics on overflow when overflow checks are compiled in and
\* wraps otherwise; the index panics when start > end or end > len.
slice_index(chk, offset, w, len) ==
    LET sum == AddLimbs(offset, Usize(w), 0) IN
    IF chk /\ sum.carry # 0 THEN [panic |-> TRUE, start |-> 0]
    ELSE IF ~va_le(offset, sum.limbs) THEN [panic |-> TRUE, start |-> 0]
    ELSE IF ~va_le(sum.limbs, Usize(len)) THEN [panic |-> TRUE, start |-> 0]
    ELSE [panic |-> FALSE, start |-> offset[1]]

\* The result of an access that panicked: nothing read, nothing written.
AccessPanic(b) == [panic |-> TRUE, val |-> <<>>, buf |-> b, touched |-> {}]

\* The indices of the buffer that an access of w bytes at byte `at` covers.
Touched(at, w) == {at + k : k \in 0..(w - 1)}

\* ptr::read_unaligned(p): the w bytes at `at` of buffer b as a T.
read_unaligned(h, b, at, w) ==
    [panic |-> FALSE, val |-> ne_bytes(h, SubSeq(b, at + 1, at + w)), buf |-> b,
     touched |-> Touched(at, w)]

\* ptr::write_unaligned(p, val): the bytes of val stored at `at` of buffer b.
write_unaligned(h, b, at, w, val) ==
    [panic |-> FALSE, val |-> val,
     buf |-> [i \in 1..Len(b) |->
                 IF i - 1 \in Touched(at, w) THEN ne_bytes(h, val)[i - at] ELSE b[i]],
     touched |-> Touched(at, w)]

\* OpCode::read<T>(&self, offset) of opcode.rs, on the view s of buffer b.
OpCode_read(h, chk, b, s, T, offset) ==
    IF slice_index(chk, offset, size_of(T), s.len).panic THEN AccessPanic(b)
    ELSE read_unaligned(h, b, s.ptr + slice_index(chk, offset, size_of(T), s.len).start,
                        size_of(T))

\* OpCode::write<T>(&mut self, offset, val) of opcode.rs.
OpCode_write(h, chk, b, s, T, offset, val) ==
    IF slice_index(chk, offset, size_of(T), s.len).panic THEN AccessPanic(b)
    ELSE write_unaligned(h, b, s.ptr + slice_index(chk, offset, size_of(T), s.len).start,
                         size_of(T), val)

\* ptr::read(target) of a T at byte `at`.  ptr::read requires target to be
\* aligned for T; on a misaligned pointer the behaviour is undefined, and a
\* build either reads the value all the same or stops (ub = "trap": the
\* precondition check of a build with debug assertions, or the alignment
\* fault of a machine that has one).  Index 0 of the buffer is taken to sit at
\* a multiple of 8, so that byte `at` is aligned for T iff at % w = 0.
ptr_read(h, b, at, w, ub) ==
    IF at % w # 0 /\ ub = "trap" THEN AccessPanic(b)
    ELSE read_unaligned(h, b, at, w)

\* OpCode::read<T>(&self, offset) of lib.rs:
\*   let bytes = &self[offset..offset + mem::size_of::<T>()];
\*   let target = bytes.as_ptr() as *const T;
\*   unsafe { ptr::read(target) }
OpCode_read_lib(h, chk, b, s, T, offset, ub) ==
    IF slice_index(chk, offset, size_of(T), s.len).panic THEN AccessPanic(b)
    ELSE ptr_read(h, b, s.ptr + slice_index(chk, offset, size_of(T), s.len).start,
                  size_of(T), ub)

\* OcBuilder::new(len): len = min(len, 15), buf = [0; 15].  The builder as a
\* buffer and the view that Deref / DerefMut give: &buf[..len].
OcBuilder_new(len) == [buf |-> [i \in 1..15 |-> 0], bytes |-> [ptr |-> 0, len |-> Min(len, 15)]]

\* OcBuilder::write(mut self, offset, val): (*self).write(offset, val); self
OcBuilder_write(h, chk, b, s, T, offset, val) == OpCode_write(h, chk, b, s, T, offset, val)

\* Plain memory a view is taken of: 11 22 33 ..., two bytes longer than the
\* longest view, so that a byte lies beyond the end of every view.
Memory == [i \in 1..(MaxViewLen + 2) |-> 17 * i]

\* Views over plain memory: at index 0 or 1, of every length up to MaxViewLen.
MemoryViews ==
    {[buf |-> Memory, bytes |-> [ptr |-> p, len |-> l]] : p \in {0, 1}, l \in 0..MaxViewLen}

\* Lengths the builders of the tests are made with.
BuilderLens == {2, 5, 8}

\* The integer types the accesses are made at, one of each width.
ViewTypes == {"u8", "u16", "i32", "u64"}

\* Offsets passed to read and write: every offset up to the length of the
\* view, and usize::MAX (where offset + size_of::<T>() overflows).
Offsets(len) == {Usize(k) : k \in 0..len} \cup {UsizeMax}

\* Values written: 42 at the width of the type, and the byte 0xB8.
Vals(T) == {ToDigits(42, size_of(T))} \cup (IF size_of(T) = 1 THEN {<<184>>} ELSE {})

\* OpCode::from(&bytes[..]) over plain memory, or OcBuilder::new(len).
InitView ==
    /\ arch = "x86"
    /\ kind \in {"OpCode", "OcBuilder"}
    /\ checked \in BOOLEAN
    /\ host \in {[big_endian |-> e] : e \in BOOLEAN}
    /\ \E v \in IF kind = "OpCode" THEN MemoryViews ELSE {OcBuilder_new(n) : n \in BuilderLens} :
           buf = v.buf /\ bytes = v.bytes
    /\ va = VaDoc(arch)
    /\ va0 = va
    /\ panicked = FALSE
    /\ last = [op |-> "new", n |-> 0, ret |-> None, dec |-> NoDec]
    /\ items = <<>>
    /\ pullsOnly = TRUE
    /\ pullFailed = FALSE
    /\ exhausted = FALSE
    /\ copy = NoCopy

\* An access op of type T at offset (writing val) whose method returned r.
\* items logs the writes that succeeded, last.n counts the reads.
Access(op, T, offset, val, r) ==
    /\ buf' = r.buf
    /\ panicked' = r.panic
    /\ last' = [op |-> op, n |-> IF op = "write" THEN last.n ELSE last.n + 1, ret |-> None, dec |-> NoDec, T |-> T, offset |-> offset,
                val |-> val, got |-> r.val, touched |-> r.touched]
    /\ items' = IF op = "write" /\ ~r.panic
                THEN Append(items, [T |-> T, offset |-> offset, val |-> val])
                ELSE items
    /\ UNCHANGED << arch, kind, checked, bytes, va, va0, pullsOnly, pullFailed, exhausted,
                    host, copy >>

ViewRead ==
    /\ ~panicked /\ last.n < MaxReads
    /\ \E T \in ViewTypes : \E offset \in Offsets(bytes.len) :
           Access("read", T, offset, <<>>, OpCode_read(host, checked, buf, bytes, T, offset))

ViewReadLib ==
    /\ kind = "OpCode" /\ ~panicked /\ last.n < MaxReads
    /\ \E T \in ViewTypes : \E offset \in Offsets(bytes.len) : \E ub \in {"value", "trap"} :
           Access("read_lib", T, offset, <<>>,
                  OpCode_read_lib(host, checked, buf, bytes, T, offset, ub))

ViewWrite ==
    /\ kind = "OpCode" /\ ~panicked /\ Len(items) < MaxWrites
    /\ \E T \in ViewTypes : \E offset \in Offsets(bytes.len) : \E val \in Vals(T) :
           Access("write", T, offset, val,
                  OpCode_write(host, checked, buf, bytes, T, offset, val))

BuilderWrite ==
    /\ kind = "OcBuilder" /\ ~panicked /\ Len(items) < MaxWrites
    /\ \E T \in ViewTypes : \E offset \in Offsets(bytes.len) : \E val \in Vals(T) :
           Access("write", T, offset, val,
                  OcBuilder_write(host, checked, buf, bytes, T, offset, val))

NextView ==
    \/ ViewRead
    \/ ViewReadLib
    \/ ViewWrite
    \/ BuilderWrite

SpecView == InitView /\ [][NextView]_vars

-----------------------------------------------------------------------------
(* Properties of the opcode view, checked under SpecView *)

\* offset + w > len, as numbers (no wrap).
Exceeds(offset, w, len) ==
    AddLimbs(offset, Usize(w), 0).carry # 0
    \/ ~va_le(AddLimbs(offset, Usize(w), 0).limbs, Usize(len))

\* The indices of the buffer that the view s covers.
ViewIndices(s) == {s.ptr + k : k \in 0..(s.len - 1)}

\* What C11 asks of one access, the step from the unprimed to the primed state.
BoundsContract ==
    /\ panicked' <=> Exceeds(last'.offset, size_of(last'.T), bytes.len)
    /\ panicked' => buf' = buf
    /\ last'.touched \subseteq ViewIndices(bytes)
    /\ \A i \in 1..Len(buf) : (i - 1) \notin ViewIndices(bytes) => buf'[i] = buf[i]

\* C11: every typed read and write of the view panics if and only if
\* offset + sizeof(T) > len(view); a write that panics leaves every byte
\* unchanged, and no access touches a byte outside the view.
C11_Original == [][ BoundsContract ]_vars

\* The same contract for the accessors of opcode.rs alone (read and write
\* through read_unaligned / write_unaligned).
C11_OpcodeRs == [][ last'.op \in {"read", "write"} => BoundsContract ]_vars

\* The bytes of the view s of buffer b.
ViewBytes(b, s) == SliceBytes(b, s)

\* What C12 asks of one write that did not panic, with `enc` the bytes that
\* the value is expected to be stored as.
WriteContract(enc) ==
    LET at == bytes.ptr + last'.offset[1]
        w == size_of(last'.T)
    IN /\ SubSeq(buf', at + 1, at + w) = enc
       /\ \A i \in 1..Len(buf) : (i - 1) \notin Touched(at, w) => buf'[i] = buf[i]
       /\ OpCode_read(host, checked, buf', bytes, last'.T, last'.offset).val = last'.val

\* The builder of the test: OcBuilder::new(5).write(0, 0xB8u8).write(1, 42)
BuilderTestDone ==
    /\ kind = "OcBuilder" /\ bytes.len = 5
    /\ items = << [T |-> "u8", offset |-> Usize(0), val |-> <<184>>],
                  [T |-> "i32", offset |-> Usize(1), val |-> ToDigits(42, 4)] >>

\* C12: a write that does not panic stores the little-endian bytes of the
\* value at [offset, offset + sizeof(T)), changes no other byte, and a read of
\* T at the offset then returns the value; the builder of the test ends as
\* B8 2A 00 00 00.
C12_Original ==
    [][ /\ (last'.op = "write" /\ ~panicked') => WriteContract(last'.val)
        /\ BuilderTestDone' => ViewBytes(buf', bytes') = <<184, 42, 0, 0, 0>> ]_vars

\* The same with the bytes in the byte order of the machine.
C12_NativeOrder ==
    [][ (last'.op = "write" /\ ~panicked') => WriteContract(ne_bytes(host, last'.val)) ]_vars

\* On a little-endian machine the writes are as C12 says.
C12_LittleEndianHost ==
    [][ ~host.big_endian =>
          /\ (last'.op = "write" /\ ~panicked') => WriteContract(last'.val)
          /\ BuilderTestDone' => ViewBytes(buf', bytes') = <<184, 42, 0, 0, 0>> ]_vars

\* The builder of the test is reached.
C12_BuilderReached == BuilderTestDone

-----------------------------------------------------------------------------
(* Termination, checked under Spec *)

\* C13: iteration is finite: every pull that yields an item removes at least
\* one byte from the remaining bytes, and an iterator driven by pulls alone
\* yields at most len(b) items.
C13_IterationFinite ==
    /\ [](pullsOnly => Len(items) <= Len(buf))
    /\ [][ (last'.op = "next" /\ last'.ret.some) =>
              (bytes'.len < bytes.len /\ bytes'.len = bytes.len - last'.ret.len) ]_vars

\* Pulls alone have yielded as many items as the buffer has bytes, and the
\* pull after them returned nothing.
C13_Witness ==
    /\ pullsOnly /\ Len(buf) >= 2 /\ Len(items) = Len(buf)
    /\ last.op = "next" /\ ~last.ret.some /\ ~panicked

-----------------------------------------------------------------------------
(* Two iterators over one immutable buffer: the first, and a second made   *)
(* from it by Clone or made anew over the same bytes.                      *)

\* Clone of the clone with the slice one byte further on.
LDE_clone_shifted(s, v) ==
    [bytes |-> [ptr |-> s.ptr + Min(1, s.len), len |-> s.len - Min(1, s.len)], va |-> v]

\* impl Clone for LDE / Iter: LDE { bytes: self.bytes, va: self.va }
LDE_clone(s, v) == [bytes |-> s, va |-> v]

\* E::lde(bytes, va): LDE { bytes: bytes, va: va }
LDE_new(b, v) == [bytes |-> [ptr |-> 0, len |-> Len(b)], va |-> v]

\* next() of the iterator type k.
PullOf(k, a, chk, b, s, v) ==
    IF k = "LDE" THEN LDE_next(a, chk, b, s, v) ELSE Iter_next(a, chk, b, s, v)

\* The second iterator with the fields it, made to stand at (s0, v0): the
\* fields of the iterator it was cloned from, or the arguments of E::lde.
CopyOf(it, s0, v0) ==
    [live |-> TRUE, bytes0 |-> s0, va0 |-> v0, bytes |-> it.bytes, va |-> it.va,
     items |-> <<>>, panicked |-> FALSE, done |-> FALSE]

InitPair ==
    /\ arch \in {"x86", "x64"}
    /\ kind \in {"LDE", "Iter"}
    /\ checked \in BOOLEAN
    /\ buf \in IterBuffers
    /\ bytes = [ptr |-> 0, len |-> Len(buf)]
    /\ va \in StartVas(arch)
    /\ va0 = va
    /\ panicked = FALSE
    /\ last = [op |-> "new", n |-> 0, ret |-> None, dec |-> NoDec]
    /\ items = <<>>
    /\ pullsOnly = TRUE
    /\ pullFailed = FALSE
    /\ exhausted = FALSE
    /\ host = LittleEndian
    /\ copy = NoCopy

\* let second = first.clone();
PairClone ==
    /\ ~copy.live
    /\ copy' = CopyOf(LDE_clone(bytes, va), bytes, va)
    /\ UNCHANGED << arch, kind, checked, buf, bytes, va, va0, panicked, last, items, pullsOnly,
                    pullFailed, exhausted, host >>

\* let second = E::lde(bytes, va); over the same bytes.
PairNew ==
    /\ ~copy.live
    /\ \E v \in StartVas(arch) : copy' = CopyOf(LDE_new(buf, v), [ptr |-> 0, len |-> Len(buf)], v)
    /\ UNCHANGED << arch, kind, checked, buf, bytes, va, va0, panicked, last, items, pullsOnly,
                    pullFailed, exhausted, host >>

\* A pull of the second iterator whose method returned r.
CopyPull(r) ==
    /\ copy' = [copy EXCEPT !.bytes = r.bytes, !.va = r.va, !.panicked = r.panic,
                            !.items = IF r.ret.some THEN Append(copy.items, r.ret)
                                      ELSE copy.items,
                            !.done = (~r.panic /\ ~r.ret.some)]
    /\ UNCHANGED << arch, kind, checked, buf, bytes, va, va0, panicked, last, items, pullsOnly,
                    pullFailed, exhausted, host >>

\* second.next()
PairNextCopy ==
    /\ copy.live /\ ~copy.panicked /\ ~copy.done
    /\ CopyPull(PullOf(kind, arch, checked, buf, copy.bytes, copy.va))

\* first.next(), until it has returned None.
PairNextFirst ==
    /\ ~exhausted
    /\ (LDENext \/ IterNext)

NextPair ==
    \/ PairClone
    \/ PairNew
    \/ PairNextCopy
    \/ PairNextFirst

SpecPair == InitPair /\ [][NextPair]_vars

\* The items an iterator of type k yields when it alone is pulled from the
\* fields (s, v) until a pull returns nothing or panics.
RECURSIVE RunAlone(_, _, _, _, _, _)
RunAloneFrom(k, a, chk, b, r) ==
    IF r.panic \/ ~r.ret.some THEN <<>>
    ELSE <<r.ret>> \o RunAlone(k, a, chk, b, r.bytes, r.va)

RunAlone(k, a, chk, b, s, v) == RunAloneFrom(k, a, chk, b, PullOf(k, a, chk, b, s, v))

IsPrefixOf(p, q) == Len(p) <= Len(q) /\ p = SubSeq(q, 1, Len(p))

\* The items seen so far are those of the run alone, all of them once the
\* iterator has returned None.
AsAlone(seen, finished, alone) ==
    /\ IsPrefixOf(seen, alone)
    /\ finished => seen = alone

-----------------------------------------------------------------------------
(* The x86 engine on instruction forms: prefixes, an opcode, the two bytes *)
(* after it (a Mod R/M byte and a scaled index byte where the opcode has   *)
(* them) and a number of further bytes.                                    *)

\* Most bytes that follow the first two bytes after the opcode.
MaxFill == 8
\* Longest run of one prefix byte in front of an opcode.
MaxPrefixRun == 15

\* Prefixes of the forms: none, 66, 67, 64 (fs:), 66 67, 67 66.
FormPrefixes == {<<>>, <<102>>, <<103>>, <<100>>, <<102, 103>>, <<103, 102>>}

\* Opcodes of the forms:
\*   00 01 04 05 40 68 84 89 90 9A A0 A1 A2 A3 A9 B8 BF C2 C3 C8 CA DD E8 E9 EA F6 F7
FormOpcodes ==
    {0, 1, 4, 5, 64, 104, 132, 137, 144, 154, 160, 161, 162, 163, 169, 184, 191, 194, 195,
     200, 202, 221, 232, 233, 234, 246, 247}

\* The byte after the opcode: every mode with rm 000, 100 and 101 and reg 000,
\* and 08 5D C8 D0 with another reg or rm.
FormModrms == {0, 4, 5, 8, 64, 68, 69, 93, 128, 132, 133, 192, 196, 197, 200, 208}

\* The byte after that: low three bits 000, 101 and 101 with an index.
FormSibs == {0, 5, 37}

\* k bytes 2A.
Fill(k) == [i \in 1..k |-> 42]

FormBuffers ==
    {pre \o <<op, modrm, sib>> \o Fill(k) :
        pre \in FormPrefixes, op \in FormOpcodes, modrm \in FormModrms, sib \in FormSibs,
        k \in 0..MaxFill}

\* Truncated forms: the prefixes and the opcode, with or without the byte after it.
ShortBuffers ==
    {pre \o <<op>> : pre \in FormPrefixes, op \in FormOpcodes}
    \cup {pre \o <<op, modrm>> : pre \in FormPrefixes, op \in FormOpcodes, modrm \in FormModrms}

\* k times the prefix byte p, then an opcode and four bytes.
PrefixRunBuffers ==
    {[i \in 1..k |-> p] \o <<op>> \o Fill(4) :
        k \in 0..MaxPrefixRun, p \in {102, 103, 243}, op \in {144, 184, 137}}

\* B8 .. BF (mov r32, imm32) after each of the prefixes, with up to four bytes.
MovImmBuffers ==
    {pre \o <<op>> \o Fill(k) : pre \in FormPrefixes, op \in 184..191, k \in 0..4}

\* x86::ld on the forms.
InitForms ==
    /\ arch = "x86"
    /\ kind = "LDE"
    /\ checked = FALSE
    /\ buf \in FormBuffers \cup ShortBuffers \cup PrefixRunBuffers \cup MovImmBuffers
    /\ bytes = [ptr |-> 0, len |-> Len(buf)]
    /\ va = VaDoc(arch)
    /\ va0 = va
    /\ panicked = FALSE
    /\ last = [op |-> "new", n |-> 0, ret |-> None, dec |-> NoDec]
    /\ items = <<>>
    /\ pullsOnly = TRUE
    /\ pullFailed = FALSE
    /\ exhausted = FALSE
    /\ host = LittleEndian
    /\ copy = NoCopy

NextForms == Ld

SpecForms == InitForms /\ [][NextForms]_vars

\* The length x86::ld returned for the buffer of the state.
Decoded == last.op = "ld"

\* C15: every successful decode length is at most 15, the longest x86
\* instruction and the capacity of the opcode builder, however many prefix
\* bytes the buffer starts with.
C15_Original == Decoded => last.dec.ret <= 15

\* What does hold: the bytes after the prefixes number at most 11 (opcode,
\* Mod R/M, scaled index byte, four displacement and four immediate bytes).
C15_AfterPrefixes ==
    (Decoded /\ last.dec.ret > 0) =>
        last.dec.ret - (prefix_loop(buf, 0, 4, 4, FALSE).i - 1) <= 11

-----------------------------------------------------------------------------
(* Lengths of the instruction forms, checked under SpecForms *)

StartsWith(b, p) == Len(b) >= Len(p) /\ SubSeq(b, 1, Len(p)) = p

\* x86::ld was given a buffer of at least n bytes that starts with the
\* prefixes pre and the opcode op.
Form(pre, op, n) == Decoded /\ StartsWith(buf, pre \o <<op>>) /\ Len(buf) >= n

\* Opcodes with a default-width immediate and no Mod R/M byte:
\* 05 68 A9 B8..BF E8 E9
ImmOpcodes == {5, 104, 169, 232, 233} \cup 184..191

\* The length of prefix bytes pre, the opcode op and an immediate of w bytes.
ImmLength(pre, op, w) == Form(pre, op, Len(pre) + 1 + w) => last.dec.ret = Len(pre) + 1 + w

\* C16: an opcode with a default-width immediate and no Mod R/M byte decodes
\* to 1 + 4 without prefixes and to 1 + 1 + 2 after 0x66; an opcode with an
\* 8-bit immediate (04) to 2 plus the prefix; an opcode with neither (40, C3)
\* to 1 plus the prefix; 0x67 changes no immediate width.
C16_DefaultImmediates ==
    /\ \A op \in ImmOpcodes :
          /\ ImmLength(<<>>, op, 4)
          /\ ImmLength(<<102>>, op, 2)
          /\ ImmLength(<<103>>, op, 4)
          /\ ImmLength(<<103, 102>>, op, 2)
    /\ \A pre \in {<<>>, <<102>>, <<103>>} :
          /\ ImmLength(pre, 4, 1)
          /\ ImmLength(pre, 64, 0)
          /\ ImmLength(pre, 195, 0)

\* 66 B8 with its two immediate bytes was decoded, as four bytes.
C16_Witness == Form(<<102>>, 184, 4) /\ last.dec.ret = 4

\* Opcodes with a Mod R/M byte and no immediate: 00 01 84 89 DD
ModrmOpcodes == {0, 1, 132, 137, 221}

\* The number of bytes that follow the addressing byte modrm, whose next byte
\* is sib, with address-size default adef: the rule of C17.
AddressingTail(modrm, sib, adef) ==
    LET mode == modrm \div 64
        rm == modrm % 8
        s == IF rm = 4 THEN 1 ELSE 0
        d == IF mode = 0
             THEN (IF rm = 5 \/ (rm = 4 /\ sib % 8 = 5) THEN 4 ELSE 0)
             ELSE IF mode = 1 THEN 1 ELSE adef
    IN IF mode = 3 THEN 0 ELSE s + d

\* The length of the form pre op modrm sib ... under the rule, when the
\* buffer holds that many bytes.
AddressingLength(pre, op, adef) ==
    Form(pre, op, Len(pre) + 3) =>
        LET total == Len(pre) + 2 + AddressingTail(buf[Len(pre) + 2], buf[Len(pre) + 3], adef)
        IN Len(buf) >= total => last.dec.ret = total

\* C17: for an opcode with an addressing byte and no immediate the bytes after
\* the addressing byte number 0 for mode 11, else s + d with s = 1 iff rm = 100,
\* d = 4 for mode 00 with rm = 101 or with rm = 100 and an extension byte whose
\* low three bits are 101, d = 0 otherwise in mode 00, d = 1 in mode 01 and d =
\* the address-size default (4, or 2 after 0x67) in mode 10; so 89 5D xx is 3,
\* 84 C0 is 2, DD 84 00 + 4 is 7, 01 05 + 4 is 6 and 67 00 80 + 2 is 5 bytes.
C17_AddressingByte ==
    /\ \A op \in ModrmOpcodes :
          /\ AddressingLength(<<>>, op, 4)
          /\ AddressingLength(<<102>>, op, 4)
          /\ AddressingLength(<<100>>, op, 4)
          /\ AddressingLength(<<103>>, op, 2)
          /\ AddressingLength(<<102, 103>>, op, 2)
    /\ (Decoded /\ buf = <<137, 93, 0>>) => last.dec.ret = 3
    /\ (Decoded /\ buf = <<132, 192>>) => last.dec.ret = 2
    /\ (Decoded /\ buf = <<221, 132, 0>> \o Fill(4)) => last.dec.ret = 7
    /\ (Decoded /\ buf = <<1, 5, 0>> \o Fill(3)) => last.dec.ret = 6
    /\ (Decoded /\ buf = <<103, 0, 128, 0>> \o Fill(1)) => last.dec.ret = 5

\* DD 84 00 and four displacement bytes were decoded, as seven bytes.
C17_Witness == Decoded /\ buf = <<221, 132, 0>> \o Fill(4) /\ last.dec.ret = 7

\* C18: the absolute-addressing opcodes A0..A3 have no addressing byte and
\* carry an address of the address-size default: 1 + 4 bytes without prefix,
\* 1 + 1 + 2 after 0x67, 1 + 1 + 4 after the segment prefix 0x64 and also
\* 1 + 1 + 4 after the operand-size prefix 0x66.
C18_AbsoluteAddress ==
    \A op \in 160..163 :
        /\ ImmLength(<<>>, op, 4)
        /\ ImmLength(<<103>>, op, 2)
        /\ ImmLength(<<100>>, op, 4)
        /\ ImmLength(<<102>>, op, 4)
        /\ ImmLength(<<102, 103>>, op, 2)

\* 66 A1 and four address bytes were decoded, as six bytes.
C18_Witness == Form(<<102>>, 161, 6) /\ last.dec.ret = 6

\* The immediate of F6 / F7 by the reg field of the addressing byte: for reg
\* 000 one byte (F6) or the operand-size default odef (F7), else none.
TestImmediate(op, modrm, odef) ==
    IF (modrm \div 8) % 8 = 0 THEN (IF op = 246 THEN 1 ELSE odef) ELSE 0

\* The length of the form pre op modrm sib ... for op = F6 / F7: the
\* addressing bytes, counted once, and the immediate.
TestLength(pre, op, odef, adef) ==
    Form(pre, op, Len(pre) + 3) =>
        LET modrm == buf[Len(pre) + 2]
            total == Len(pre) + 2 + AddressingTail(modrm, buf[Len(pre) + 3], adef)
                     + TestImmediate(op, modrm, odef)
        IN Len(buf) >= total => last.dec.ret = total

\* C19: for F6 and F7 the immediate depends on the reg field of the
\* addressing byte that follows: reg 000 adds one byte for F6 and the
\* default width (4, or 2 after 0x66) for F7, any other reg adds nothing; the
\* byte is looked at without being consumed and never past the end of the
\* buffer, and without a byte after the opcode the result is 0.
C19_TestImmediate ==
    /\ \A op \in {246, 247} :
          /\ TestLength(<<>>, op, 4, 4)
          /\ TestLength(<<102>>, op, 2, 4)
          /\ TestLength(<<103>>, op, 4, 2)
          /\ TestLength(<<100>>, op, 4, 4)
          /\ TestLength(<<102, 103>>, op, 2, 2)
          /\ \A pre \in FormPrefixes : (Decoded /\ buf = pre \o <<op>>) => last.dec.ret = 0
    /\ Decoded => last.dec.examined <= Len(buf)

\* 66 F7 05 (reg 000, a 32-bit address) with four address bytes and a 16-bit
\* immediate was decoded, as nine bytes.
C19_Witness ==
    /\ Form(<<102>>, 247, 9) /\ buf[3] = 5 /\ Len(buf) = 9
    /\ last.dec.ret = 9

\* Opcodes with a fixed 16-bit immediate: 9A C2 C8 CA EA
Imm16Opcodes == {154, 194, 200, 202, 234}

\* x86::ld of the opcode op and eight more bytes, after the prefixes pre.
LengthOf(pre, op) == lde_int(pre \o <<op, 0, 0>> \o Fill(MaxFill))

\* The buffer of the state is 66, the opcode op and eight more bytes.
After66(op) == Decoded /\ buf = <<102, op, 0, 0>> \o Fill(MaxFill)

\* C20: for each of 9A C2 C8 CA EA, prepending 0x66 changes the decoded
\* length by exactly +1.
C20_Original ==
    \A op \in Imm16Opcodes : After66(op) => last.dec.ret = LengthOf(<<>>, op) + 1

\* For C2 C8 CA, prepending 0x66 changes the decoded length by +1; for 9A and
\* EA, whose 16-bit immediate is followed by a default-width one, by +1 - 2.
C20_NearForms ==
    /\ \A op \in {194, 200, 202} : After66(op) => last.dec.ret = LengthOf(<<>>, op) + 1
    /\ \A op \in {154, 234} : After66(op) => last.dec.ret = LengthOf(<<>>, op) + 1 - 2
    /\ \A op \in Imm16Opcodes : \A pre \in {<<>>, <<102>>} :
          Form(pre, op, Len(pre) + 7) =>
             last.dec.ret = Len(pre) + 1 + 2
                            + (IF op = 200 THEN 1 ELSE 0)
                            + (IF op \in {154, 234} THEN (IF pre = <<>> THEN 4 ELSE 2) ELSE 0)

\* 66 9A was decoded, as 1 + 1 + 2 + 2 bytes, where 9A alone is 1 + 2 + 4.
C20_Witness == After66(154) /\ last.dec.ret = 6 /\ LengthOf(<<>>, 154) = 7


-----------------------------------------------------------------------------
(* Escaped opcodes: x86::ld on 0F xx and on 0F 38 xx / 0F 3A xx             *)

\* The byte after the opcode of an escaped form: each mode, with rm 000, 100, 101.
EscModrms == {0, 4, 5, 68, 128, 192}

\* Prefixes of the escaped forms: none and 66.
EscPrefixes == {<<>>, <<102>>}

\* What follows the opcode bytes: nothing, or an addressing byte and k bytes 2A.
EscTails == {<<>>} \cup {<<modrm>> \o Fill(k) : modrm \in EscModrms, k \in 0..MaxFill}

\* 0F op2 ... for every second byte.
TwoByteBuffer(b) ==
    \E pre \in EscPrefixes, op2 \in 0..255, t \in EscTails : b = pre \o <<15, op2>> \o t

\* 0F 38 op3 ... and 0F 3A op3 ... for every third byte.
ThreeByteBuffer(b) ==
    \E pre \in EscPrefixes, esc \in {56, 58}, op3 \in 0..255, t \in EscTails :
        b = pre \o <<15, esc, op3>> \o t

\* x86::ld on the escaped forms.
InitEscape ==
    /\ arch = "x86"
    /\ kind = "LDE"
    /\ checked = FALSE
    /\ TwoByteBuffer(buf) \/ ThreeByteBuffer(buf)
    /\ bytes = [ptr |-> 0, len |-> Len(buf)]
    /\ va = VaDoc(arch)
    /\ va0 = va
    /\ panicked = FALSE
    /\ last = [op |-> "new", n |-> 0, ret |-> None, dec |-> NoDec]
    /\ items = <<>>
    /\ pullsOnly = TRUE
    /\ pullFailed = FALSE
    /\ exhausted = FALSE
    /\ host = LittleEndian
    /\ copy = NoCopy

NextEscape == Ld

SpecEscape == InitEscape /\ [][NextEscape]_vars

\* Third bytes valid after 0F 38: 00-0B 10 14 15 17 1C-1E 20-25 28-2B 30-35
\* 37-3F 40 41 80 81 F0 F1.
Valid38 ==
    (0..63 \ {12, 13, 14, 15, 17, 18, 19, 22, 24, 25, 26, 27, 31, 38, 39, 44, 45, 46, 47, 54})
    \cup {64, 65, 128, 129, 240, 241}

\* Third bytes valid after 0F 3A: 08-0F 14-17 20-22 40-42 60-63.
Valid3A == (8..15) \cup (20..23) \cup (32..34) \cup (64..66) \cup (96..99)

\* The buffer is pre 0F esc op3 ... and has been decoded.
ThreeByte(pre, esc) ==
    Decoded /\ StartsWith(buf, pre \o <<15, esc>>) /\ Len(buf) >= Len(pre) + 3

\* The rule of C21 for the escape esc after the prefixes pre: valid third
\* bytes are those of ok, and imm immediate bytes follow the addressing bytes.
ThreeByteLength(pre, esc, ok, imm) ==
    ThreeByte(pre, esc) =>
        LET n == Len(pre)
            op3 == buf[n + 3]
        IN IF op3 \notin ok THEN last.dec.ret = 0
           ELSE IF Len(buf) = n + 3 THEN last.dec.ret = 0
           ELSE LET modrm == buf[n + 4]
                    sib == IF Len(buf) >= n + 5 THEN buf[n + 5] ELSE 0
                    total == n + 4 + AddressingTail(modrm, sib, 4) + imm
                IN /\ last.dec.ret \in {0, total}
                   /\ Len(buf) >= total => last.dec.ret = total
                   /\ (n = 0 /\ modrm \div 64 = 3 /\ Len(buf) >= 4 + imm) =>
                          last.dec.ret = 4 + imm

\* C21: a three-byte opcode 0F 38 xx or 0F 3A xx with a valid third byte
\* always has an addressing byte; 0F 38 adds no immediate byte and 0F 3A adds
\* exactly one, so with an addressing byte of mode 11 and no prefix the length
\* is 4 for 0F 38 xx and 5 for 0F 3A xx; a third byte that is invalid for its
\* escape gives 0 whatever bytes follow.
C21_ThreeByteOpcodes ==
    \A pre \in EscPrefixes :
        /\ ThreeByteLength(pre, 56, Valid38, 0)
        /\ ThreeByteLength(pre, 58, Valid3A, 1)

\* 0F 38 00 C0 is 4 and 0F 3A 0F C0 2A is 5 bytes; 0F 38 42 and 0F 3A 00 with
\* eight more bytes are refused.
C21_Witness ==
    /\ Decoded
    /\ \/ buf = <<15, 56, 0, 192>> /\ last.dec.ret = 4
       \/ buf = <<15, 58, 15, 192>> \o Fill(1) /\ last.dec.ret = 5
       \/ buf = <<15, 56, 66, 192>> \o Fill(MaxFill) /\ last.dec.ret = 0
       \/ buf = <<15, 58, 0, 192>> \o Fill(MaxFill) /\ last.dec.ret = 0


\* The buffer is pre 0F op2 x ..., op2 neither 38 nor 3A, and has been decoded.
TwoByte(pre) ==
    /\ Decoded
    /\ StartsWith(buf, pre \o <<15>>)
    /\ Len(buf) >= Len(pre) + 3
    /\ buf[Len(pre) + 2] \notin {56, 58}

\* Second bytes with an 8-bit immediate: 70-73 A4 AC BA C2 C4-C6.
Imm8Second == (112..115) \cup {164, 172, 186, 194} \cup (196..198)

\* Second bytes with an immediate of the default width: 80-8F.
ImmDefSecond == 128..143

\* The bytes of 0F op2 that C22 accounts for without the extension: the two
\* opcode bytes, the addressing bytes beginning at modrm where the opcode has
\* them, and the immediate.
Accounted(op2, modrm, sib, ddef) ==
    2 + (IF has(TABLE_MODRM_B, op2) THEN 1 + AddressingTail(modrm, sib, 4) ELSE 0)
      + (IF op2 \in Imm8Second THEN 1 ELSE 0)
      + (IF op2 \in ImmDefSecond THEN ddef ELSE 0)

\* The valid second bytes to whose length the engine adds two bytes.
ExtensionOpcodes ==
    {op2 \in (0..255) \ {56, 58} :
        /\ ~has(TABLE_INVALID_B, op2)
        /\ lde_int(<<15, op2, 192>> \o Fill(MaxFill)) = Accounted(op2, 192, 42, 4) + 2}

\* The bytes the decoded length of pre 0F op2 ... has beyond the accounted ones.
Extension(pre, ddef) ==
    last.dec.ret - Len(pre)
        - Accounted(buf[Len(pre) + 2], buf[Len(pre) + 3],
                    IF Len(buf) >= Len(pre) + 4 THEN buf[Len(pre) + 4] ELSE 0, ddef)

\* The buffer holds the accounted bytes and two more.
HoldsAll(pre, ddef) ==
    Len(buf) >= Len(pre) + 2
        + Accounted(buf[Len(pre) + 2], buf[Len(pre) + 3],
                    IF Len(buf) >= Len(pre) + 4 THEN buf[Len(pre) + 4] ELSE 0, ddef)

\* The rule of C22 after the prefixes pre, which leave the default width ddef.
TwoByteRule(pre, ddef) ==
    (TwoByte(pre) /\ ~has(TABLE_INVALID_B, buf[Len(pre) + 2]) /\ HoldsAll(pre, ddef)) =>
        /\ Extension(pre, ddef) \in {0, 2}
        /\ Extension(pre, ddef) = 2 => Cardinality(ExtensionOpcodes) = 2

\* C22: among the two-byte opcodes 0F xx exactly two second bytes add a fixed
\* extension of 2 bytes to the length; every other valid one has only its
\* addressing bytes, an 8-bit immediate (70-73, A4, AC, BA, C2, C4-C6) or an
\* immediate of the default width (80-8F: 4 bytes, 2 after 66).
C22_Original == TwoByteRule(<<>>, 4) /\ TwoByteRule(<<102>>, 2)

\* The second bytes the engine extends: 0E and C9-CE.
CodedExtension == {14} \cup (201..206)

\* The engine's lengths after the prefixes pre.
TwoByteCoded(pre, ddef) ==
    TwoByte(pre) =>
        IF has(TABLE_INVALID_B, buf[Len(pre) + 2]) THEN last.dec.ret = 0
        ELSE HoldsAll(pre, ddef) =>
                Extension(pre, ddef) = (IF buf[Len(pre) + 2] \in CodedExtension THEN 2 ELSE 0)

\* What the engine does: seven second bytes, 0E and C9-CE, get the two
\* bytes; the immediates are as C22 lists them.
C22_SevenExtended ==
    /\ TwoByteCoded(<<>>, 4)
    /\ TwoByteCoded(<<102>>, 2)
    /\ (Decoded /\ buf = <<15, 201, 192>> \o Fill(1)) => ExtensionOpcodes = CodedExtension

\* 0F C9 (bswap ecx) followed by C0 2A is decoded as four bytes.
C22_Witness == Decoded /\ buf = <<15, 201, 192>> \o Fill(1) /\ last.dec.ret = 4


-----------------------------------------------------------------------------
(* x64 prefix parsing: RawPrefix::parse                                     *)

\* Longest slice handed to RawPrefix::parse.
MaxParseLen == 4

\* x64::len::LEN_X64: the length class of the opcode bytes 00 .. BF.
LEN_X64 ==
    <<
       "VModRM", "VModRM", "VModRM", "VModRM", "VImm8", "VImm32", "Invalid", "Invalid",
       "VModRM", "VModRM", "VModRM", "VModRM", "VImm8", "VImm32", "Invalid", "TwoByte",
       "VModRM", "VModRM", "VModRM", "VModRM", "VImm8", "VImm32", "Invalid", "Invalid",
       "VModRM", "VModRM", "VModRM", "VModRM", "VImm8", "VImm32", "Invalid", "Invalid",
       "VModRM", "VModRM", "VModRM", "VModRM", "VImm8", "VImm32", "Prefix", "Invalid",
       "VModRM", "VModRM", "VModRM", "VModRM", "VImm8", "VImm32", "Prefix", "Invalid",
       "VModRM", "VModRM", "VModRM", "VModRM", "VImm8", "VImm32", "Prefix", "Invalid",
       "VModRM", "VModRM", "VModRM", "VModRM", "VImm8", "VImm32", "Prefix", "Invalid",
       "Prefix", "Prefix", "Prefix", "Prefix", "Prefix", "Prefix", "Prefix", "Prefix",
       "Prefix", "Prefix", "Prefix", "Prefix", "Prefix", "Prefix", "Prefix", "Prefix",
       "Valid", "Valid", "Valid", "Valid", "Valid", "Valid", "Valid", "Valid",
       "Valid", "Valid", "Valid", "Valid", "Valid", "Valid", "Valid", "Valid",
       "Invalid", "Invalid", "Invalid", "VModRM", "Prefix", "Prefix", "Prefix", "Prefix",
       "VImm32", "VModRMImm32", "VImm8", "VModRMImm8", "Valid", "Valid", "Valid", "Valid",
       "VImm8", "VImm8", "VImm8", "VImm8", "VImm8", "VImm8", "VImm8", "VImm8",
       "VImm8", "VImm8", "VImm8", "VImm8", "VImm8", "VImm8", "VImm8", "VImm8",
       "VModRMImm8", "VModRMImm32", "Invalid", "VModRMImm8", "VModRM", "VModRM", "VModRM", "VModRM",
       "VModRM", "VModRM", "VModRM", "VModRM", "VModRM", "VModRM", "VModRM", "VModRM",
       "Valid", "Valid", "Valid", "Valid", "Valid", "Valid", "Valid", "Valid",
       "Valid", "Valid", "Invalid", "Valid", "Valid", "Valid", "Valid", "Valid",
       "VAbs", "VAbs", "VAbs", "VAbs", "Valid", "Valid", "Valid", "Valid",
       "VImm8", "VImm32", "Valid", "Valid", "Valid", "Valid", "Valid", "Valid",
       "VImm8", "VImm8", "VImm8", "VImm8", "VImm8", "VImm8", "VImm8", "VImm8",
       "VImm32", "VImm32", "VImm32", "VImm32", "VImm32", "VImm32", "VImm32", "VImm32"
    >>

\* a | b on u32.
RECURSIVE BitOr(_, _)
BitOr(a, b) ==
    IF a = 0 THEN b
    ELSE IF b = 0 THEN a
    ELSE (IF a % 2 = 1 \/ b % 2 = 1 THEN 1 ELSE 0) + 2 * BitOr(a \div 2, b \div 2)

\* The arms of `match &byte`: the bits the byte adds to raw_prefix, or None
\* for `_ => break`.  The last arm is the inclusive range 0x40...0x50.
match_byte(byte) ==
    IF byte = 38 THEN [some |-> TRUE, val |-> 1]                 \* 0x26
    ELSE IF byte = 46 THEN [some |-> TRUE, val |-> 2]            \* 0x2E
    ELSE IF byte = 54 THEN [some |-> TRUE, val |-> 4]            \* 0x36
    ELSE IF byte = 62 THEN [some |-> TRUE, val |-> 8]            \* 0x3E
    ELSE IF byte = 100 THEN [some |-> TRUE, val |-> 16]          \* 0x64
    ELSE IF byte = 101 THEN [some |-> TRUE, val |-> 32]          \* 0x65
    ELSE IF byte = 155 THEN [some |-> TRUE, val |-> 64]          \* 0x9B
    ELSE IF byte = 240 THEN [some |-> TRUE, val |-> 128]         \* 0xF0
    ELSE IF byte = 102 THEN [some |-> TRUE, val |-> 256]         \* 0x66
    ELSE IF byte = 103 THEN [some |-> TRUE, val |-> 512]         \* 0x67
    ELSE IF byte = 242 THEN [some |-> TRUE, val |-> 1024]        \* 0xF2
    ELSE IF byte = 243 THEN [some |-> TRUE, val |-> 2048]        \* 0xF3
    ELSE IF 64 <= byte /\ byte <= 80
    THEN [some |-> TRUE, val |-> BitOr(65536, ((byte \div 16) * 16) * 4096)]
    ELSE None

\* `while let Some(byte) = bytes.get(0) { ... bytes = &bytes[1..]; }` on the
\* slice b, of which n bytes have been dropped.
RECURSIVE parse_loop(_, _, _)
parse_loop(b, n, raw_prefix) ==
    IF n >= Len(b) THEN [n |-> n, raw_prefix |-> raw_prefix]
    ELSE LET arm == match_byte(b[n + 1]) IN
         IF ~arm.some THEN [n |-> n, raw_prefix |-> raw_prefix]
         ELSE parse_loop(b, n + 1, BitOr(raw_prefix, arm.val))

\* RawPrefix::parse(iter): the slice left in *iter and the RawPrefix returned.
RawPrefix_parse(b, iter) ==
    LET r == parse_loop(SliceBytes(b, iter), 0, 0) IN
    [iter |-> [ptr |-> iter.ptr + r.n, len |-> iter.len - r.n], raw |-> r.raw_prefix]

\* Bytes of the slices: each kind of prefix, REX bytes, 50 and 51 (push), and
\* bytes that are no prefix (0F 3F 90).
ParseSamples == {38, 102, 103, 155, 243, 64, 72, 79, 80, 81, 15, 63, 144}

\* Every slice of up to MaxParseLen sample bytes, and every byte followed by 90.
ParseBuffer(b) ==
    \/ \E n \in 0..MaxParseLen : b \in [1..n -> ParseSamples]
    \/ \E byte \in 0..255 : b = <<byte, 144>>

InitParse ==
    /\ arch = "x64"
    /\ kind = "RawPrefix"
    /\ checked = FALSE
    /\ ParseBuffer(buf)
    /\ bytes = [ptr |-> 0, len |-> Len(buf)]
    /\ va = VaDoc(arch)
    /\ va0 = va
    /\ panicked = FALSE
    /\ last = [op |-> "new", n |-> 0, ret |-> None, dec |-> NoDec]
    /\ items = <<>>
    /\ pullsOnly = TRUE
    /\ pullFailed = FALSE
    /\ exhausted = FALSE
    /\ host = LittleEndian
    /\ copy = NoCopy

\* RawPrefix::parse(&mut bytes): bytes is left at the first byte not consumed;
\* last records the slice passed in and the RawPrefix.
Parse ==
    /\ kind = "RawPrefix"
    /\ bytes' = RawPrefix_parse(buf, bytes).iter
    /\ last' = [op |-> "parse", n |-> 0, dec |-> NoDec, from |-> bytes,
                ret |-> [some |-> TRUE, val |-> RawPrefix_parse(buf, bytes).raw]]
    /\ UNCHANGED << arch, kind, checked, buf, va, va0, panicked, items,
                    pullsOnly, pullFailed, exhausted, host, copy >>

NextParse == Parse

SpecParse == InitParse /\ [][NextParse]_vars

\* The prefixes of C23: 26 2E 36 3E 64 65 66 67 9B F0 F2 F3 and REX 40-4F.
LegacyPrefixes == {38, 46, 54, 62, 100, 101, 102, 103, 155, 240, 242, 243}
RexPrefixes == 64..79

\* The length table classifies the byte as an opcode.
IsOpcode(byte) == byte < Len(LEN_X64) /\ LEN_X64[byte + 1] \notin {"Invalid", "Prefix"}

Parsed == last.op = "parse"

\* The slice handed to the call and the number of bytes the call consumed.
Passed == SliceBytes(buf, last.from)
Consumed == bytes.ptr - last.from.ptr

\* The call consumed exactly the longest leading run of bytes of the set P and
\* left the slice at the byte after it.
ConsumesRun(P) ==
    Parsed =>
        /\ Consumed \in 0..Len(Passed)
        /\ \A j \in 1..Consumed : Passed[j] \in P
        /\ Consumed < Len(Passed) => Passed[Consumed + 1] \notin P
        /\ bytes = [ptr |-> last.from.ptr + Consumed, len |-> last.from.len - Consumed]

\* C23: RawPrefix::parse consumes exactly the longest leading run of prefix
\* bytes and stops, without consuming it, at the first other byte: a byte is
\* consumed iff it is a legacy prefix (26 2E 36 3E 64 65 66 67 9B F0 F2 F3) or a
\* REX prefix 40-4F; a byte that the x64 length table classifies as an opcode
\* (50, push) is never consumed, and the slice handed back starts at the first
\* byte that is no prefix.
C23_Original ==
    /\ ConsumesRun(LegacyPrefixes \cup RexPrefixes)
    /\ Parsed => \A j \in 1..Consumed : ~IsOpcode(Passed[j])

\* What the code does: the run is over the legacy prefixes and 40-50, the
\* byte 50 included.
C23_Through50 == ConsumesRun(LegacyPrefixes \cup (64..80))

\* 50 90 is passed in, 50 is consumed as a prefix and the slice is left at 90.
C23_Witness ==
    /\ Parsed /\ buf = <<80, 144>> /\ last.from.ptr = 0
    /\ bytes = [ptr |-> 1, len |-> 1]
    /\ last.ret.val = 327680

=============================================================================
